---- MODULE Spec2Model ----
(***************************************************************************)
(* A model of the three standalone scripts of the repository:              *)
(*   jsonify.py            a Flask app with the route /divide              *)
(*   health_check.py       a Flask app with /status, /health and the 404   *)
(*                         and 500 error handlers                          *)
(*   os_module_examples.py main() running the 20 os-module examples        *)
(* One behaviour of the model is one run of one of the scripts (proc).     *)
(***************************************************************************)
EXTENDS Integers, Sequences, FiniteSets, TLC

VARIABLES
    proc,       \* which script is running
    request,    \* the HTTP request being handled, or NoRequest
    response,   \* the response the handler returned, or NoResponse
    served,     \* requests answered so far by this server process
    fs,         \* the filesystem: absolute path -> node
    env,        \* os.environ: variable name -> value
    cwd,        \* the process's current working directory (absolute path)
    os_name,    \* os.name
    pc,         \* main(): where the loop stands
    i,          \* main(): the loop counter of enumerate(examples, 1)
    log,        \* main(): the calls and sleeps made so far, in order
    pre         \* the process state when the last example was called

vars == <<proc, request, response, served, fs, env, cwd, os_name, pc, i, log, pre>>

webVars == <<request, response, served>>
mainVars == <<fs, env, cwd, os_name, pc, i, log, pre>>

\* ------------------------------------------------------------------ bounds

\* Longest query-parameter string drawn from Alphabet.
MaxLen == 2
\* Requests one server process answers in a behaviour.
MaxRequests == 2

\* ------------------------------------------------------------------ values

None == "None"
\* A query parameter: given with a value, or absent from the query string.
Arg(s) == [given |-> TRUE, value |-> s]
Absent == [given |-> FALSE, value |-> ""]
NoRequest == [path |-> "", args |-> [a |-> Absent, b |-> Absent]]
NoResponse == [status |-> 0, mimetype |-> "", body |-> [none |-> ""]]

Alphabet == {"0", "1", "2", "-", "."}
Literals == {"abc", "nan", "inf", "-inf"}
RECURSIVE StringsOfLen(_)
StringsOfLen(k) ==
    IF k = 0 THEN {""} ELSE {s \o c : s \in StringsOfLen(k - 1), c \in Alphabet}
Strings == UNION {StringsOfLen(k) : k \in 0..MaxLen} \cup Literals
Params == {Arg(s) : s \in Strings} \cup {Absent}
\* Query parameters of a request to a route whose handler never reads them.
FewParams == {Absent, Arg("1"), Arg("0"), Arg("abc")}

\* ------------------------------------------------------------------ float

Char(s, k) == SubSeq(s, k, k)

DigitVal(c) ==
    CASE c = "0" -> 0 [] c = "1" -> 1 [] c = "2" -> 2 [] c = "3" -> 3 [] c = "4" -> 4
      [] c = "5" -> 5 [] c = "6" -> 6 [] c = "7" -> 7 [] c = "8" -> 8 [] c = "9" -> 9

IsDigit(c) == c \in {"0", "1", "2", "3", "4", "5", "6", "7", "8", "9"}

RECURSIVE DigitsValue(_)
DigitsValue(s) ==
    IF Len(s) = 0 THEN 0
    ELSE 10 * DigitsValue(SubSeq(s, 1, Len(s) - 1)) + DigitVal(Char(s, Len(s)))

RECURSIVE Pow10(_)
Pow10(k) == IF k = 0 THEN 1 ELSE 10 * Pow10(k - 1)

Abs(n) == IF n < 0 THEN -n ELSE n
Sign(n) == IF n < 0 THEN -1 ELSE 1

RECURSIVE GCD(_, _)
GCD(m, n) == IF n = 0 THEN m ELSE GCD(n, m % n)

\* A float: a finite value n/d in lowest terms (d > 0), an infinity (n its
\* sign) or nan.
Fin(n, d) ==
    LET g == GCD(Abs(n), Abs(d))
    IN [kind |-> "fin", n |-> Sign(d) * (n \div g), d |-> Sign(d) * (d \div g)]
Inf(sign) == [kind |-> "inf", n |-> sign, d |-> 0]
NaN == [kind |-> "nan", n |-> 0, d |-> 0]

\* The outcome of an expression: its value, or the exception it raised with
\* str(e).
Raised(exc, msg) == [ok |-> FALSE, val |-> NaN, exc |-> exc, msg |-> msg]
Value(v) == [ok |-> TRUE, val |-> v, exc |-> None, msg |-> ""]

\* float(s) for a str s: an optional sign, then inf, infinity or nan, or
\* decimal digits with at most one point and a digit on one side of it.
\* A str that is none of these raises ValueError.
ParseFloat(s) ==
    LET signed == Len(s) > 0 /\ Char(s, 1) \in {"-", "+"}
        sign == IF signed /\ Char(s, 1) = "-" THEN -1 ELSE 1
        t == IF signed THEN SubSeq(s, 2, Len(s)) ELSE s
        dots == {k \in 1..Len(t) : Char(t, k) = "."}
        p == IF dots = {} THEN Len(t) + 1 ELSE CHOOSE k \in dots : TRUE
        ip == SubSeq(t, 1, p - 1)
        fp == SubSeq(t, p + 1, Len(t))
        decimal == /\ Cardinality(dots) <= 1
                   /\ \A k \in 1..Len(t) : k \in dots \/ IsDigit(Char(t, k))
                   /\ Len(ip) + Len(fp) > 0
    IN  IF t \in {"inf", "infinity"} THEN Value(Inf(sign))
        ELSE IF t = "nan" THEN Value(NaN)
        ELSE IF decimal THEN Value(Fin(sign * DigitsValue(ip \o fp), Pow10(Len(fp))))
        ELSE Raised("ValueError", "could not convert string to float: '" \o s \o "'")

IsZero(x) == x.kind = "fin" /\ x.n = 0

\* a // b in place of a / b: the quotient rounded down.
FloatDiv_floor(a, b) ==
    IF IsZero(b) THEN Raised("ZeroDivisionError", "float division by zero")
    ELSE IF a.kind # "fin" \/ b.kind # "fin" THEN Value(NaN)
    ELSE Value(Fin((a.n * b.d * Sign(a.d * b.n)) \div Abs(a.d * b.n), 1))

\* a / b for floats; b == 0 raises ZeroDivisionError.
FloatDiv(a, b) ==
    IF IsZero(b) THEN Raised("ZeroDivisionError", "float division by zero")
    ELSE IF a.kind = "nan" \/ b.kind = "nan" THEN Value(NaN)
    ELSE IF a.kind = "inf"
         THEN IF b.kind = "inf" THEN Value(NaN) ELSE Value(Inf(a.n * Sign(b.n)))
    ELSE IF b.kind = "inf" THEN Value(Fin(0, 1))
    ELSE Value(Fin(a.n * b.d, a.d * b.n))

\* ------------------------------------------------------------------ flask

JStr(s) == [str |-> s]
JNum(x) == [num |-> x]

\* jsonify(**fields), status: a response with a JSON object as its body.
jsonify(fields, code) == [status |-> code, mimetype |-> "application/json", body |-> fields]

\* A parameter that does not parse falls back to the default as well.
FloatArg_lenient(args, name, default) ==
    IF args[name].given /\ ParseFloat(args[name].value).ok
    THEN ParseFloat(args[name].value) ELSE Value(Fin(default, 1))

\* float(request.args.get(name, default)): an absent parameter is the
\* default, a number already.
FloatArg(args, name, default) ==
    IF args[name].given THEN ParseFloat(args[name].value) ELSE Value(Fin(default, 1))

\* The exception classes the scripts' calls raise: all are subclasses of
\* Exception, which "except Exception" catches.
OSErrors == {"OSError", "FileExistsError", "FileNotFoundError", "NotADirectoryError",
             "IsADirectoryError", "PermissionError"}
IsException(exc) ==
    exc \in OSErrors \cup {"Exception", "ValueError", "ZeroDivisionError", "KeyError"}

\* What the framework answers when an exception leaves a handler of an app
\* with no 500 handler.
unhandled_exception ==
    [status |-> 500, mimetype |-> "text/html", body |-> [html |-> JStr("Internal Server Error")]]

\* The clauses in the other order: except Exception comes first and takes
\* every exception.
divide_except_generic_first(exc, msg) ==
    IF IsException(exc) THEN jsonify([error |-> JStr(msg)], 500)
    ELSE IF exc = "ZeroDivisionError"
    THEN jsonify([error |-> JStr("Cannot divide by zero you silly!")], 400)
    ELSE unhandled_exception

\* Without the except Exception clause.
divide_except_no_catch_all(exc, msg) ==
    IF exc = "ZeroDivisionError"
    THEN jsonify([error |-> JStr("Cannot divide by zero you silly!")], 400)
    ELSE unhandled_exception

\* The except clauses of divide(), tried in order.
divide_except(exc, msg) ==
    IF exc = "ZeroDivisionError"
    THEN jsonify([error |-> JStr("Cannot divide by zero you silly!")], 400)
    ELSE IF IsException(exc) THEN jsonify([error |-> JStr(msg)], 500)
    ELSE unhandled_exception

\* b is parsed and tested for zero before a is parsed.
divide_b_checked_first(args) ==
    LET a == FloatArg(args, "a", 0)
        b == FloatArg(args, "b", 1)
        q == FloatDiv(a.val, b.val)
    IN  IF ~b.ok THEN divide_except(b.exc, b.msg)
        ELSE IF IsZero(b.val) THEN divide_except("ZeroDivisionError", "float division by zero")
        ELSE IF ~a.ok THEN divide_except(a.exc, a.msg)
        ELSE jsonify([result |-> JNum(q.val)], 200)

\* The two defaults exchanged: a missing a is 1, a missing b is 0.
divide_defaults_swapped(args) ==
    LET a == FloatArg(args, "a", 1)
        b == FloatArg(args, "b", 0)
        q == FloatDiv(a.val, b.val)
    IN  IF ~a.ok THEN divide_except(a.exc, a.msg)
        ELSE IF ~b.ok THEN divide_except(b.exc, b.msg)
        ELSE IF ~q.ok THEN divide_except(q.exc, q.msg)
        ELSE jsonify([result |-> JNum(q.val)], 200)

\* The view function of the route /divide.
divide(args) ==
    LET a == FloatArg(args, "a", 0)
        b == FloatArg(args, "b", 1)
        q == FloatDiv(a.val, b.val)
    IN  IF ~a.ok THEN divide_except(a.exc, a.msg)
        ELSE IF ~b.ok THEN divide_except(b.exc, b.msg)
        ELSE IF ~q.ok THEN divide_except(q.exc, q.msg)
        ELSE jsonify([result |-> JNum(q.val)], 200)

\* What the try body of status() and of health() can raise: it only builds
\* the response, so nothing.
\* A check in the try body that can fail.
StatusChecks_failing == {None, "Exception"}
StatusChecks == {None}
HealthChecks == {None}

status(exc) ==
    IF exc = None
    THEN jsonify([status |-> JStr("OK"), message |-> JStr("Service running smoothly")], 200)
    ELSE jsonify([status |-> JStr("ERROR"), message |-> JStr("Service experiencing issues")], 500)

health(exc) ==
    IF exc = None
    THEN jsonify([status |-> JStr("healthy"), service |-> JStr("health-check-api"),
                  version |-> JStr("1.0.0")], 200)
    ELSE jsonify([status |-> JStr("unhealthy"), error |-> JStr(exc)], 500)

\* The handler returns the body without the status code.
not_found_without_code == jsonify([error |-> JStr("Endpoint not found")], 200)
not_found == jsonify([error |-> JStr("Endpoint not found")], 404)

\* An app that registers no 404 handler answers with the framework's page.
default_not_found == [status |-> 404, mimetype |-> "text/html", body |-> [html |-> JStr("Not Found")]]

\* The routes each app registers.
Routes(app) ==
    IF app = "jsonify" THEN {"/divide"}
    ELSE IF app = "health_check" THEN {"/status", "/health"}
    ELSE {}

\* Whether the app registers a handler for 404.
HasNotFoundHandler(app) == app = "health_check"

Servers == {"jsonify", "health_check"}
Paths == {"/divide", "/status", "/health", "/missing"}

\* ------------------------------------------------------------- filesystem

\* A path is a sequence of names; one that starts with "/" is absolute, any
\* other is relative to the current working directory. The filesystem maps
\* each existing absolute path (without the "/") to its node.
Dir == [t |-> "dir", size |-> 0, mode |-> 493, target |-> <<>>]
File(size, mode) == [t |-> "file", size |-> size, mode |-> mode, target |-> <<>>]
Link(target) == [t |-> "link", size |-> 0, mode |-> 511, target |-> target]

Parent(p) == SubSeq(p, 1, Len(p) - 1)
IsPrefix(p, q) == Len(p) <= Len(q) /\ SubSeq(q, 1, Len(p)) = p
Children(f, p) == {q \in DOMAIN f : Len(q) = Len(p) + 1 /\ Parent(q) = p}
Put(f, p, node) == [q \in DOMAIN f \cup {p} |-> IF q = p THEN node ELSE f[q]]
Del(f, p) == [q \in DOMAIN f \ {p} |-> f[q]]

\* The state of the process an example runs in; exc is the exception that
\* is propagating (None: none), and a statement reached while one is
\* propagating is not executed.
Ok(S) == S.exc = None
Raise(S, e) == [S EXCEPT !.exc = e]
Resolve(S, p) == IF p # <<>> /\ p[1] = "/" THEN Tail(p) ELSE S.cwd \o p

exists(S, p) == Resolve(S, p) \in DOMAIN S.fs
isdir(S, p) == exists(S, p) /\ S.fs[Resolve(S, p)].t = "dir"
isfile(S, p) == exists(S, p) /\ S.fs[Resolve(S, p)].t = "file"

\* What a path whose parent cannot hold it raises, or None.
ParentError(S, q) ==
    IF Parent(q) \notin DOMAIN S.fs THEN "FileNotFoundError"
    ELSE IF S.fs[Parent(q)].t # "dir" THEN "NotADirectoryError"
    ELSE None

\* What a path that does not exist raises.
Missing(S, q) ==
    IF ParentError(S, q) = "NotADirectoryError" THEN "NotADirectoryError" ELSE "FileNotFoundError"

\* What opening a directory as a file, or unlinking one, raises.
DirError(S) == IF S.os = "nt" THEN "PermissionError" ELSE "IsADirectoryError"

mkdir(S, p) ==
    LET q == Resolve(S, p) IN
    IF ~Ok(S) THEN S
    ELSE IF q \in DOMAIN S.fs THEN Raise(S, "FileExistsError")
    ELSE IF ParentError(S, q) # None THEN Raise(S, ParentError(S, q))
    ELSE [S EXCEPT !.fs = Put(S.fs, q, Dir)]

\* os.makedirs: the missing ancestors first, then mkdir of the leaf, whose
\* OSError is swallowed when exist_ok and the leaf is a directory.
RECURSIVE makedirs_abs(_, _, _)
makedirs_abs(S, q, exist_ok) ==
    LET S1 == IF Len(q) > 1 /\ Parent(q) \notin DOMAIN S.fs
              THEN makedirs_abs(S, Parent(q), exist_ok) ELSE S
    IN  IF ~Ok(S) THEN S
        ELSE IF ~Ok(S1) /\ S1.exc # "FileExistsError" THEN S1
        ELSE LET S3 == mkdir([S1 EXCEPT !.exc = None], <<"/">> \o q) IN
             IF ~Ok(S3) /\ exist_ok /\ isdir(S3, <<"/">> \o q)
             THEN [S3 EXCEPT !.exc = None] ELSE S3

makedirs(S, p, exist_ok) == makedirs_abs(S, Resolve(S, p), exist_ok)

rmdir(S, p) ==
    LET q == Resolve(S, p) IN
    IF ~Ok(S) THEN S
    ELSE IF q \notin DOMAIN S.fs THEN Raise(S, Missing(S, q))
    ELSE IF S.fs[q].t # "dir" THEN Raise(S, "NotADirectoryError")
    ELSE IF Children(S.fs, q) # {} THEN Raise(S, "OSError")
    ELSE [S EXCEPT !.fs = Del(S.fs, q)]

remove(S, p) ==
    LET q == Resolve(S, p) IN
    IF ~Ok(S) THEN S
    ELSE IF q \notin DOMAIN S.fs THEN Raise(S, Missing(S, q))
    ELSE IF S.fs[q].t = "dir" THEN Raise(S, DirError(S))
    ELSE [S EXCEPT !.fs = Del(S.fs, q)]

\* with open(p, "w") as f: f.write(<size bytes>). A symbolic link is
\* followed; an existing file is truncated and keeps its mode.
Writable(node) == (node.mode \div 128) % 2 = 1
open_w(S, p, size) ==
    LET q0 == Resolve(S, p)
        q == IF q0 \in DOMAIN S.fs /\ S.fs[q0].t = "link"
             THEN Parent(q0) \o S.fs[q0].target ELSE q0
    IN  IF ~Ok(S) THEN S
        ELSE IF q \in DOMAIN S.fs
             THEN IF S.fs[q].t = "dir" THEN Raise(S, DirError(S))
                  ELSE IF ~Writable(S.fs[q]) THEN Raise(S, "PermissionError")
                  ELSE [S EXCEPT !.fs = Put(S.fs, q, File(size, S.fs[q].mode))]
        ELSE IF ParentError(S, q) # None THEN Raise(S, ParentError(S, q))
        ELSE [S EXCEPT !.fs = Put(S.fs, q, File(size, 420))]

\* os.rename: on POSIX an existing destination of the same kind is
\* replaced, on Windows it raises FileExistsError.
Moved(f, a, b) ==
    LET kept == {q \in DOMAIN f : ~IsPrefix(a, q) /\ ~IsPrefix(b, q)}
        new == {b \o SubSeq(q, Len(a) + 1, Len(q)) : q \in {r \in DOMAIN f : IsPrefix(a, r)}}
    IN  [q \in kept \cup new |->
            IF q \in new THEN f[a \o SubSeq(q, Len(b) + 1, Len(q))] ELSE f[q]]

rename(S, src, dst) ==
    LET a == Resolve(S, src)
        b == Resolve(S, dst)
    IN  IF ~Ok(S) THEN S
        ELSE IF a \notin DOMAIN S.fs THEN Raise(S, Missing(S, a))
        ELSE IF a = b THEN S
        ELSE IF b \in DOMAIN S.fs
             THEN IF S.os = "nt" THEN Raise(S, "FileExistsError")
                  ELSE IF S.fs[b].t = "dir" /\ S.fs[a].t # "dir" THEN Raise(S, "IsADirectoryError")
                  ELSE IF S.fs[b].t # "dir" /\ S.fs[a].t = "dir" THEN Raise(S, "NotADirectoryError")
                  ELSE IF Children(S.fs, b) # {} THEN Raise(S, "OSError")
                  ELSE [S EXCEPT !.fs = Moved(S.fs, a, b)]
        ELSE IF ParentError(S, b) # None THEN Raise(S, ParentError(S, b))
        ELSE [S EXCEPT !.fs = Moved(S.fs, a, b)]

\* os.stat, os.path.getsize: only the failure changes anything.
stat(S, p) ==
    IF ~Ok(S) THEN S
    ELSE IF ~exists(S, p) THEN Raise(S, Missing(S, Resolve(S, p)))
    ELSE S

chmod(S, p, mode) ==
    LET q == Resolve(S, p) IN
    IF ~Ok(S) THEN S
    ELSE IF q \notin DOMAIN S.fs THEN Raise(S, Missing(S, q))
    ELSE [S EXCEPT !.fs = Put(S.fs, q, [S.fs[q] EXCEPT !.mode = mode])]

symlink(S, target, link) ==
    LET q == Resolve(S, link) IN
    IF ~Ok(S) THEN S
    ELSE IF q \in DOMAIN S.fs THEN Raise(S, "FileExistsError")
    ELSE IF ParentError(S, q) # None THEN Raise(S, ParentError(S, q))
    ELSE [S EXCEPT !.fs = Put(S.fs, q, Link(target))]

readlink(S, p) ==
    IF ~Ok(S) THEN S
    ELSE IF ~exists(S, p) THEN Raise(S, Missing(S, Resolve(S, p)))
    ELSE IF S.fs[Resolve(S, p)].t # "link" THEN Raise(S, "OSError")
    ELSE S

\* os.listdir(p): the names in p, in no particular order.
Names(S, p) == {q[Len(q)] : q \in Children(S.fs, Resolve(S, p))}
listdir(S, p) ==
    IF ~Ok(S) THEN S
    ELSE IF ~exists(S, p) THEN Raise(S, Missing(S, Resolve(S, p)))
    ELSE IF ~isdir(S, p) THEN Raise(S, "NotADirectoryError")
    ELSE S

chdir(S, p) ==
    LET q == Resolve(S, p) IN
    IF ~Ok(S) THEN S
    ELSE IF q \notin DOMAIN S.fs THEN Raise(S, Missing(S, q))
    ELSE IF S.fs[q].t # "dir" THEN Raise(S, "NotADirectoryError")
    ELSE [S EXCEPT !.cwd = q]

\* os.path.dirname of an absolute path.
dirname(q) == IF q = <<>> THEN <<>> ELSE Parent(q)

\* os.environ[name] = value
setenv(S, name, value) ==
    IF ~Ok(S) THEN S
    ELSE [S EXCEPT !.env = [k \in DOMAIN S.env \cup {name} |-> IF k = name THEN value ELSE S.env[k]]]

\* tempfile.gettempdir()
TempDir == <<"/", "tmp">>

\* --------------------------------------------------------------- examples

\* Each example maps the process state it is called in to the set of states
\* it can return or raise in: one state, but for the loops over os.listdir,
\* whose order the operating system chooses.

example_current_directory(S) ==
    LET current_dir == S.cwd
        original_dir == S.cwd
        parent_dir == dirname(current_dir)
        S1 == chdir(S, <<"/">> \o parent_dir)
        S2 == chdir(S1, <<"/">> \o original_dir)
    IN  {S2}

example_directory_creation(S) ==
    LET test_dir == <<"test_directory">>
        nested_dir == <<"parent", "child", "grandchild">>
        S1 == IF ~exists(S, test_dir) THEN mkdir(S, test_dir) ELSE S
        S2 == IF ~exists(S1, nested_dir) THEN makedirs(S1, nested_dir, FALSE) ELSE S1
        S3 == rmdir(S2, <<"parent", "child", "grandchild">>)
        S4 == rmdir(S3, <<"parent", "child">>)
        S5 == rmdir(S4, <<"parent">>)
        S6 == rmdir(S5, test_dir)
    IN  {S6}

example_list_directory(S) == {listdir(S, <<>>)}

example_path_checks(S) ==
    LET S1 == makedirs(S, <<"test_check_dir">>, TRUE)
        S2 == open_w(S1, <<"test_file.txt">>, 12)
        S3 == remove(S2, <<"test_file.txt">>)
        S4 == rmdir(S3, <<"test_check_dir">>)
    IN  {S4}

example_path_manipulation(S) == {S}

example_file_operations(S) ==
    LET S1 == open_w(S, <<"test_rename.txt">>, 13)
        S2 == rename(S1, <<"test_rename.txt">>, <<"renamed_file.txt">>)
        S3 == rename(S2, <<"renamed_file.txt">>, <<"moved_file.txt">>)
        S4 == remove(S3, <<"moved_file.txt">>)
    IN  {S4}

example_file_stats(S) ==
    LET S1 == open_w(S, <<"stats_test.txt">>, 24)
        S2 == stat(S1, <<"stats_test.txt">>)
        S3 == stat(S2, <<"stats_test.txt">>)
        S4 == remove(S3, <<"stats_test.txt">>)
    IN  {S4}

example_environment_variables(S) == {setenv(S, "MY_TEST_VAR", "test_value")}

example_directory_walk(S) ==
    LET S1 == makedirs(S, <<"walk_test", "subdir1", "subsubdir">>, TRUE)
        S2 == makedirs(S1, <<"walk_test", "subdir2">>, TRUE)
        S3 == open_w(S2, <<"walk_test", "file1.txt">>, 9)
        S4 == open_w(S3, <<"walk_test", "subdir1", "file2.txt">>, 11)
        S5 == open_w(S4, <<"walk_test", "subdir1", "subsubdir", "file3.txt">>, 9)
        S6 == remove(S5, <<"walk_test", "subdir1", "subsubdir", "file3.txt">>)
        S7 == rmdir(S6, <<"walk_test", "subdir1", "subsubdir">>)
        S8 == remove(S7, <<"walk_test", "subdir1", "file2.txt">>)
        S9 == rmdir(S8, <<"walk_test", "subdir1">>)
        S10 == rmdir(S9, <<"walk_test", "subdir2">>)
        S11 == remove(S10, <<"walk_test", "file1.txt">>)
        S12 == rmdir(S11, <<"walk_test">>)
    IN  {S12}

example_system_info(S) == {S}

example_path_normalization(S) == {S}

example_scandir(S) ==
    LET S1 == makedirs(S, <<"scan_test">>, TRUE)
        S2 == open_w(S1, <<"scan_test", "file1.txt">>, 4)
        S3 == open_w(S2, <<"scan_test", "file2.py">>, 4)
        S4 == open_w(S3, <<"scan_test", "file3.txt">>, 4)
        S5 == makedirs(S4, <<"scan_test", "subdir">>, TRUE)
        S6 == listdir(S5, <<"scan_test">>)
        S7 == listdir(S6, <<"scan_test">>)
        S8 == remove(S7, <<"scan_test", "file1.txt">>)
        S9 == remove(S8, <<"scan_test", "file2.py">>)
        S10 == remove(S9, <<"scan_test", "file3.txt">>)
        S11 == rmdir(S10, <<"scan_test", "subdir">>)
        S12 == rmdir(S11, <<"scan_test">>)
    IN  {S12}

example_permissions(S) ==
    LET S1 == open_w(S, <<"perm_test.txt">>, 4)
        S2 == stat(S1, <<"perm_test.txt">>)
        S3 == IF S.os # "nt"
              THEN chmod(chmod(S2, <<"perm_test.txt">>, 292), <<"perm_test.txt">>, 420)
              ELSE S2
        S4 == remove(S3, <<"perm_test.txt">>)
    IN  {S4}

example_temp_operations(S) ==
    LET temp_file == TempDir \o <<"my_temp_file.txt">>
        S1 == open_w(S, temp_file, 17)
        S2 == remove(S1, temp_file)
    IN  {S2}

example_find_files(S) ==
    LET S1 == makedirs(S, <<"search_test", "dir1", "dir2">>, TRUE)
        S2 == makedirs(S1, <<"search_test", "dir3">>, TRUE)
        S3 == open_w(S2, <<"search_test", "target.txt">>, 5)
        S4 == open_w(S3, <<"search_test", "dir1", "target.txt">>, 5)
        S5 == open_w(S4, <<"search_test", "dir1", "dir2", "target.txt">>, 5)
        S6 == open_w(S5, <<"search_test", "dir3", "other.txt">>, 5)
        S7 == remove(S6, <<"search_test", "target.txt">>)
        S8 == remove(S7, <<"search_test", "dir1", "target.txt">>)
        S9 == remove(S8, <<"search_test", "dir1", "dir2", "target.txt">>)
        S10 == remove(S9, <<"search_test", "dir3", "other.txt">>)
        S11 == rmdir(S10, <<"search_test", "dir1", "dir2">>)
        S12 == rmdir(S11, <<"search_test", "dir1">>)
        S13 == rmdir(S12, <<"search_test", "dir3">>)
        S14 == rmdir(S13, <<"search_test">>)
    IN  {S14}

example_process_info(S) == {S}

example_symlinks(S) ==
    LET S1 == open_w(S, <<"symlink_target.txt">>, 14)
        S2 == symlink(S1, <<"symlink_target.txt">>, <<"symlink_link.txt">>)
        S3 == readlink(S2, <<"symlink_link.txt">>)
        S4 == remove(S3, <<"symlink_link.txt">>)
        S5 == remove(S4, <<"symlink_target.txt">>)
    IN  IF S.os # "nt" THEN {S5} ELSE {S}

\* os.path.getsize(q): the size of the file q names, through a symbolic
\* link; -1 stands for the OSError of a path that names nothing.
getsize(f, q) ==
    LET r == IF f[q].t = "link" THEN Parent(q) \o f[q].target ELSE q
    IN  IF r \in DOMAIN f THEN f[r].size ELSE -1

RECURSIVE SumSizes(_, _)
SumSizes(f, files) ==
    IF files = {} THEN 0
    ELSE LET q == CHOOSE x \in files : TRUE
             size == getsize(f, q)
         IN  (IF size < 0 THEN 0 ELSE size) + SumSizes(f, files \ {q})

\* Whether os.walk puts entry q with the directories: a directory, or a
\* symbolic link to one.
walk_is_dir(f, q) ==
    LET r == IF f[q].t = "link" THEN Parent(q) \o f[q].target ELSE q
    IN  r \in DOMAIN f /\ f[r].t = "dir"

\* The files os.walk(path) yields: every entry below path that is no
\* directory; a symbolic link is an entry of its own.
get_directory_size(S, p) ==
    LET top == Resolve(S, p)
        files == {q \in DOMAIN S.fs : IsPrefix(top, q) /\ q # top /\ ~walk_is_dir(S.fs, q)}
    IN  IF isdir(S, p) THEN SumSizes(S.fs, files) ELSE 0

\* The test directory with its two files, as built before the size is
\* calculated.
directory_size_setup(S) ==
    LET S1 == makedirs(S, <<"size_test", "subdir">>, TRUE)
        S2 == open_w(S1, <<"size_test", "file1.txt">>, 1000)
    IN  open_w(S2, <<"size_test", "subdir", "file2.txt">>, 2000)

\* total_size = get_directory_size("size_test"), printed by the example.
directory_size_total(S) == get_directory_size(directory_size_setup(S), <<"size_test">>)

example_directory_size(S) ==
    LET S3 == directory_size_setup(S)
        S4 == remove(S3, <<"size_test", "file1.txt">>)
        S5 == remove(S4, <<"size_test", "subdir", "file2.txt">>)
        S6 == rmdir(S5, <<"size_test", "subdir">>)
        S7 == rmdir(S6, <<"size_test">>)
    IN  {S7}

example_safe_operations(S) ==
    LET S1 == makedirs(S, <<"safe_test">>, TRUE)
        S2 == makedirs(S1, <<"safe_test">>, TRUE)
        S3 == rmdir(S2, <<"safe_test">>)
    IN  {S3}

\* os.path.splitext(name)[1] of a name with no separator: from the last
\* dot, unless only dots precede it.
splitext_ext(name) ==
    LET dots == {k \in 1..Len(name) : Char(name, k) = "."}
        d == CHOOSE k \in dots : \A j \in dots : j <= k
    IN  IF dots # {} /\ (\E k \in 1..(d - 1) : Char(name, k) # ".")
        THEN SubSeq(name, d, Len(name)) ELSE ""

\* os.path.join(base, name): joining "" adds no component.
join(base, name) == IF name = "" THEN base ELSE base \o <<name>>

\* One iteration of the organize loop.
organize_step(S, file) ==
    LET ext == splitext_ext(file)
        ext_folder == IF ext # "" THEN SubSeq(ext, 2, Len(ext)) ELSE "other"
        folder_path == join(<<"organize_test">>, ext_folder)
        S1 == makedirs(S, folder_path, TRUE)
        old_path == join(<<"organize_test">>, file)
        new_path == join(folder_path, file)
        S2 == rename(S1, old_path, new_path)
    IN  IF ~Ok(S) THEN S
        ELSE IF isfile(S, join(<<"organize_test">>, file)) THEN S2
        ELSE S

\* for file in os.listdir("organize_test"): the listing is taken once and
\* visited in the order the operating system gave it, which is any order.
\* front holds the loop's possible positions: the state and the names not
\* yet visited; an exception ends the loop.
RECURSIVE organize_loop(_)
organize_loop(front) ==
    LET over == {x \in front : x.todo = {} \/ ~Ok(x.S)}
        next == UNION {{[S |-> organize_step(x.S, file), todo |-> x.todo \ {file}] :
                          file \in x.todo} : x \in front \ over}
    IN  IF front = over THEN {x.S : x \in front} ELSE organize_loop(over \cup next)

\* for file in os.listdir(dir): os.remove(dir/file), in any order.
RECURSIVE remove_loop(_, _)
remove_loop(front, dir) ==
    LET over == {x \in front : x.todo = {} \/ ~Ok(x.S)}
        next == UNION {{[S |-> remove(x.S, join(dir, file)), todo |-> x.todo \ {file}] :
                          file \in x.todo} : x \in front \ over}
    IN  IF front = over THEN {x.S : x \in front} ELSE remove_loop(over \cup next, dir)

\* The cleanup of one extension folder: empty it, then remove it.
organize_cleanup(S, ext) ==
    LET dir == <<"organize_test", ext>>
        S1 == listdir(S, dir)
    IN  IF ~Ok(S1) THEN {S1}
        ELSE {rmdir(T, dir) : T \in remove_loop({[S |-> S1, todo |-> Names(S1, dir)]}, dir)}

\* The test files written into organize_test and the two listings printed
\* before the organize loop.
organizer_setup(S) ==
    LET S1 == makedirs(S, <<"organize_test">>, TRUE)
        S2 == open_w(S1, <<"organize_test", "doc1.txt">>, 4)
        S3 == open_w(S2, <<"organize_test", "doc2.txt">>, 4)
        S4 == open_w(S3, <<"organize_test", "script1.py">>, 4)
        S5 == open_w(S4, <<"organize_test", "script2.py">>, 4)
        S6 == open_w(S5, <<"organize_test", "image1.jpg">>, 4)
    IN  listdir(listdir(S6, <<"organize_test">>), <<"organize_test">>)

\* The states the organize loop can end in, started after the setup.
organizer_organized(S) ==
    LET S7 == organizer_setup(S)
    IN  IF Ok(S7)
        THEN organize_loop({[S |-> S7, todo |-> Names(S7, <<"organize_test">>)]})
        ELSE {S7}

example_file_organizer(S) ==
    LET organized == organizer_organized(S)
        txt == UNION {organize_cleanup(T, "txt") : T \in organized}
        py == UNION {organize_cleanup(T, "py") : T \in txt}
        jpg == UNION {organize_cleanup(T, "jpg") : T \in py}
    IN  {rmdir(T, <<"organize_test">>) : T \in jpg}

\* ------------------------------------------------------------------- main

\* The examples list of main(), in order.
Examples == <<
    "example_current_directory", "example_directory_creation", "example_list_directory",
    "example_path_checks", "example_path_manipulation", "example_file_operations",
    "example_file_stats", "example_environment_variables", "example_directory_walk",
    "example_system_info", "example_path_normalization", "example_scandir",
    "example_permissions", "example_temp_operations", "example_find_files",
    "example_process_info", "example_symlinks", "example_directory_size",
    "example_safe_operations", "example_file_organizer" >>

NumExamples == Len(Examples)

\* func(): the call of the example named f.
CallExample(f, S) ==
    CASE f = "example_current_directory" -> example_current_directory(S)
      [] f = "example_directory_creation" -> example_directory_creation(S)
      [] f = "example_list_directory" -> example_list_directory(S)
      [] f = "example_path_checks" -> example_path_checks(S)
      [] f = "example_path_manipulation" -> example_path_manipulation(S)
      [] f = "example_file_operations" -> example_file_operations(S)
      [] f = "example_file_stats" -> example_file_stats(S)
      [] f = "example_environment_variables" -> example_environment_variables(S)
      [] f = "example_directory_walk" -> example_directory_walk(S)
      [] f = "example_system_info" -> example_system_info(S)
      [] f = "example_path_normalization" -> example_path_normalization(S)
      [] f = "example_scandir" -> example_scandir(S)
      [] f = "example_permissions" -> example_permissions(S)
      [] f = "example_temp_operations" -> example_temp_operations(S)
      [] f = "example_find_files" -> example_find_files(S)
      [] f = "example_process_info" -> example_process_info(S)
      [] f = "example_symlinks" -> example_symlinks(S)
      [] f = "example_directory_size" -> example_directory_size(S)
      [] f = "example_safe_operations" -> example_safe_operations(S)
      [] f = "example_file_organizer" -> example_file_organizer(S)

\* except FileNotFoundError as e
Catches_only_missing(exc) == exc = "FileNotFoundError"
\* except Exception as e
Catches(exc) == IsException(exc)

\* The pause without its condition.
Pauses_always(n) == TRUE
\* if i < len(examples): whether a pause follows example n.
Pauses(n) == n < NumExamples

\* The for loop's step after example n: the next example, or the end of
\* the loop.
LoopStep(n) ==
    IF n < NumExamples THEN [pc |-> "call", i |-> n + 1] ELSE [pc |-> "print", i |-> n]

\* time.sleep(0.5), in milliseconds
Delay == 500

IsMain == proc = "os_module_examples"

\* One iteration of the loop of main() up to its pause: the example is
\* called, and an exception it raises is caught and reported.
Call ==
    /\ IsMain /\ pc = "call"
    /\ \E R \in CallExample(Examples[i], [fs |-> fs, env |-> env, cwd |-> cwd, os |-> os_name, exc |-> None]) :
         /\ fs' = R.fs /\ env' = R.env /\ cwd' = R.cwd
         /\ log' = Append(log, [ev |-> "example", n |-> i, exc |-> R.exc])
         /\ IF R.exc # None /\ ~Catches(R.exc) THEN pc' = "aborted" /\ i' = i
            ELSE IF Pauses(i) THEN pc' = "sleep" /\ i' = i
            ELSE pc' = LoopStep(i).pc /\ i' = LoopStep(i).i
    /\ pre' = [fs |-> fs, env |-> env, cwd |-> cwd]
    /\ UNCHANGED <<proc, webVars, os_name>>

\* The pause after an example, and the loop's step.
Sleep ==
    /\ IsMain /\ pc = "sleep"
    /\ log' = Append(log, [ev |-> "sleep", n |-> Delay, exc |-> None])
    /\ pc' = LoopStep(i).pc /\ i' = LoopStep(i).i
    /\ UNCHANGED <<proc, webVars, fs, env, cwd, os_name, pre>>

\* The loop is over: ALL EXAMPLES COMPLETED! is printed and main() returns.
Complete ==
    /\ IsMain /\ pc = "print"
    /\ log' = Append(log, [ev |-> "completed", n |-> 0, exc |-> None])
    /\ pc' = "done"
    /\ UNCHANGED <<proc, webVars, fs, env, cwd, os_name, i, pre>>

\* ---------------------------------------------------------------- servers

IsServer == proc \in Servers
Pending == IsServer /\ request # NoRequest /\ response = NoResponse
Routed == request.path \in Routes(proc)

\* A GET request arrives at the running server.
Receive ==
    /\ IsServer /\ request = NoRequest /\ served < MaxRequests
    /\ \E path \in Paths :
         \E a, b \in (IF path = "/divide" /\ proc = "jsonify" THEN Params ELSE FewParams) :
            request' = [path |-> path, args |-> [a |-> a, b |-> b]]
    /\ UNCHANGED <<proc, response, served, mainVars>>

DivideRoute ==
    /\ Pending /\ proc = "jsonify" /\ request.path = "/divide"
    /\ response' = divide(request.args)
    /\ UNCHANGED <<proc, request, served, mainVars>>

StatusRoute ==
    /\ Pending /\ proc = "health_check" /\ request.path = "/status"
    /\ \E exc \in StatusChecks : response' = status(exc)
    /\ UNCHANGED <<proc, request, served, mainVars>>

HealthRoute ==
    /\ Pending /\ proc = "health_check" /\ request.path = "/health"
    /\ \E exc \in HealthChecks : response' = health(exc)
    /\ UNCHANGED <<proc, request, served, mainVars>>

\* No route matches: the app's 404 handler, or the framework's page.
NotFound ==
    /\ Pending /\ ~Routed
    /\ response' = IF HasNotFoundHandler(proc) THEN not_found ELSE default_not_found
    /\ UNCHANGED <<proc, request, served, mainVars>>

\* The response is sent and the server waits for the next request.
Send ==
    /\ IsServer /\ response # NoResponse
    /\ request' = NoRequest /\ response' = NoResponse /\ served' = served + 1
    /\ UNCHANGED <<proc, mainVars>>

\* ------------------------------------------------------------------- init

MaxSeeds == 2

WorkDir == <<"work">>
BaseEnv == [HOME |-> "/home/user"]

\* What the working directory and the temp directory may hold before the
\* script starts.
SeedCandidates == {
    [path |-> <<"test_directory">>, node |-> Dir],
    [path |-> <<"test_directory">>, node |-> File(3, 420)],
    [path |-> <<"parent">>, node |-> Dir],
    [path |-> <<"test_file.txt">>, node |-> File(7, 420)],
    [path |-> <<"moved_file.txt">>, node |-> File(5, 420)],
    [path |-> <<"keep.txt">>, node |-> File(9, 420)],
    [path |-> <<"perm_test.txt">>, node |-> File(2, 292)],
    [path |-> <<"safe_test">>, node |-> Dir],
    [path |-> <<"walk_test", "subdir2">>, node |-> Dir],
    [path |-> <<"size_test", "extra.bin">>, node |-> File(50, 420)],
    [path |-> <<"size_test", "alias">>, node |-> Link(<<"file1.txt">>)],
    [path |-> <<"symlink_link.txt">>, node |-> File(1, 420)],
    [path |-> <<"organize_test", "notes.txt">>, node |-> File(6, 420)],
    [path |-> <<"organize_test", "README">>, node |-> File(8, 420)],
    [path |-> <<"organize_test", "txt">>, node |-> File(1, 420)],
    [path |-> <<"organize_test", "txt", "sub">>, node |-> Dir],
    [path |-> <<"organize_test", "txt", "doc1.txt">>, node |-> File(9, 420)],
    [path |-> <<"organize_test", "file.">>, node |-> File(2, 420)],
    [path |-> TempDir \o <<"my_temp_file.txt">>, node |-> File(3, 420)] }

AbsSeed(s) == IF s.path[1] = "/" THEN Tail(s.path) ELSE WorkDir \o s.path

\* Seeds that can exist together: one node a path, and only directories
\* above a path.
Consistent(seeds) ==
    \A s, t \in seeds :
        s # t => /\ AbsSeed(s) # AbsSeed(t)
                 /\ (IsPrefix(AbsSeed(s), AbsSeed(t)) => s.node.t = "dir")

InitFS(seeds) ==
    LET given == {AbsSeed(s) : s \in seeds}
        above == UNION {{SubSeq(q, 1, k) : k \in 0..Len(q)} : q \in given}
        all == above \cup {<<>>, WorkDir, Tail(TempDir)}
    IN  [q \in all |->
            IF q \in given THEN (CHOOSE s \in seeds : AbsSeed(s) = q).node ELSE Dir]

EmptyFS == [q \in {<<>>} |-> Dir]

InitServer ==
    /\ proc \in Servers
    /\ fs = EmptyFS /\ env = BaseEnv /\ cwd = <<>> /\ os_name = "posix"
    /\ pc = "idle" /\ i = 0 /\ log = <<>>
    /\ pre = [fs |-> EmptyFS, env |-> BaseEnv, cwd |-> <<>>]

InitMain ==
    /\ proc = "os_module_examples"
    /\ \E seeds \in SUBSET SeedCandidates :
         /\ Cardinality(seeds) <= MaxSeeds /\ Consistent(seeds)
         /\ fs = InitFS(seeds)
    /\ env \in {BaseEnv, [HOME |-> "/home/user", MY_TEST_VAR |-> "old"]}
    /\ cwd = WorkDir
    /\ os_name \in {"posix", "nt"}
    /\ pc = "call" /\ i = 1 /\ log = <<>>
    /\ pre = [fs |-> fs, env |-> env, cwd |-> cwd]

Init ==
    /\ request = NoRequest /\ response = NoResponse /\ served = 0
    /\ (InitServer \/ InitMain)

Next ==
    \/ Receive
    \/ DivideRoute
    \/ StatusRoute
    \/ HealthRoute
    \/ NotFound
    \/ Send
    \/ Call
    \/ Sleep
    \/ Complete

Spec == Init /\ [][Next]_vars

\* ----------------------------------------------------------------- claims

Answered == IsServer /\ request # NoRequest /\ response # NoResponse
DivideAnswered == Answered /\ proc = "jsonify" /\ request.path = "/divide"
ArgA == request.args.a
ArgB == request.args.b
Parses(arg) == arg.given /\ ParseFloat(arg.value).ok
Parsed(arg) == ParseFloat(arg.value).val

\* r is x divided by y (y not zero): for finite x and y, r * y = x, by
\* cross-multiplication; with an infinity or nan, the IEEE 754 quotient.
IsQuotient(r, x, y) ==
    IF x.kind = "fin" /\ y.kind = "fin"
    THEN r.kind = "fin" /\ r.d > 0 /\ r.n * (x.d * y.n) = (x.n * y.d) * r.d
    ELSE IF x.kind = "nan" \/ y.kind = "nan" \/ (x.kind = "inf" /\ y.kind = "inf") THEN r.kind = "nan"
    ELSE IF x.kind = "inf" THEN r.kind = "inf" /\ (r.n > 0 <=> (x.n > 0 <=> y.n > 0))
    ELSE r.kind = "fin" /\ r.n = 0

\* C1: a GET /divide whose a and b both parse as numbers, b not zero, is
\* answered 200 with a JSON body whose only field is result, equal to a
\* divided by b; for a=10, b=2 the result is 5.0.
C1_DivideAnswersQuotient ==
    (DivideAnswered /\ Parses(ArgA) /\ Parses(ArgB) /\ ~IsZero(Parsed(ArgB))) =>
        /\ response.status = 200
        /\ response.mimetype = "application/json"
        /\ DOMAIN response.body = {"result"}
        /\ DOMAIN response.body.result = {"num"}
        /\ IsQuotient(response.body.result.num, Parsed(ArgA), Parsed(ArgB))
        /\ (ArgA.value = "10" /\ ArgB.value = "2" =>
                response.body.result.num = [kind |-> "fin", n |-> 5, d |-> 1])

C1_Witness ==
    /\ DivideAnswered /\ response.status = 200
    /\ ArgA = Arg("10") /\ ArgB = Arg("2")

\* C2: a GET /divide whose a parses as a number and whose b parses to zero
\* is answered 400 with exactly the body {"error": "Cannot divide by zero
\* you silly!"}, which has no result field.
C2_DivideByZeroIs400 ==
    (DivideAnswered /\ Parses(ArgA) /\ Parses(ArgB) /\ IsZero(Parsed(ArgB))) =>
        /\ response.status = 400
        /\ response.mimetype = "application/json"
        /\ response.body = [error |-> JStr("Cannot divide by zero you silly!")]
        /\ "result" \notin DOMAIN response.body

C2_Witness ==
    /\ DivideAnswered /\ response.status = 400
    /\ ArgA = Arg("1") /\ ArgB \in {Arg("0"), Arg("-0"), Arg(".0")}

\* C3: a GET /divide whose a is present and does not parse as a number is
\* answered 500 with a JSON body whose error field is a non-empty string,
\* whatever b is.
C3_UnparseableAIs500 ==
    (DivideAnswered /\ ArgA.given /\ ~Parses(ArgA)) =>
        /\ response.status = 500
        /\ response.mimetype = "application/json"
        /\ "error" \in DOMAIN response.body
        /\ DOMAIN response.body.error = {"str"}
        /\ Len(response.body.error.str) > 0

C3_Witness ==
    /\ DivideAnswered /\ response.status = 500
    /\ ArgA = Arg("abc") /\ ArgB = Arg("0")

StatusOK == [status |-> JStr("OK"), message |-> JStr("Service running smoothly")]
HealthOK == [status |-> JStr("healthy"), service |-> JStr("health-check-api"),
             version |-> JStr("1.0.0")]

\* C4: every GET /status is answered 200 with {status: "OK", message:
\* "Service running smoothly"} and every GET /health 200 with {status:
\* "healthy", service: "health-check-api", version: "1.0.0"}, however many
\* requests were answered before; and the 500 answer of either handler
\* carries status "ERROR" or "unhealthy", never the 200 body.
C4_StatusAndHealthAnswer200 ==
    /\ (Answered /\ proc = "health_check" /\ request.path = "/status") =>
            response = [status |-> 200, mimetype |-> "application/json", body |-> StatusOK]
    /\ (Answered /\ proc = "health_check" /\ request.path = "/health") =>
            response = [status |-> 200, mimetype |-> "application/json", body |-> HealthOK]
    /\ \A exc \in {None, "Exception", "OSError", "ValueError"} :
            /\ status(exc).status \in {200, 500}
            /\ status(exc).status = 500 =>
                    status(exc).body.status = JStr("ERROR") /\ status(exc).body # StatusOK
            /\ health(exc).status \in {200, 500}
            /\ health(exc).status = 500 =>
                    health(exc).body.status = JStr("unhealthy") /\ health(exc).body # HealthOK

C4_Witness ==
    /\ Answered /\ proc = "health_check" /\ served >= 1
    /\ request.path = "/status" /\ response.status = 200

\* C5 as claimed: a request to any route that is not registered is answered
\* 404 with exactly the body {"error": "Endpoint not found"}.
C5_Original ==
    (Answered /\ ~Routed) =>
        /\ response.status = 404
        /\ response.mimetype = "application/json"
        /\ response.body = [error |-> JStr("Endpoint not found")]

\* C5 as amended: a request to a route that is not registered is answered
\* 404; by the health-check app with exactly the JSON body {"error":
\* "Endpoint not found"}, by the divide app, which registers no 404
\* handler, with the framework's page and no JSON error body.
C5_NotFoundPerApp ==
    (Answered /\ ~Routed) =>
        /\ response.status = 404
        /\ proc = "health_check" =>
                /\ response.mimetype = "application/json"
                /\ response.body = [error |-> JStr("Endpoint not found")]
        /\ proc = "jsonify" =>
                /\ response.mimetype # "application/json"
                /\ "error" \notin DOMAIN response.body

C5_Witness ==
    /\ Answered /\ proc = "health_check" /\ request.path = "/missing"
    /\ response.status = 404

\* The files and directories below directory c, by their path from c.
Tree(f, c) ==
    {<<SubSeq(q, Len(c) + 1, Len(q)), f[q].t>> : q \in {r \in DOMAIN f : IsPrefix(c, r) /\ r # c}}

Returned == IsMain /\ Len(log) > 0 /\ log[Len(log)].ev = "example" /\ log[Len(log)].exc = None

\* C6: whatever the working directory held, when an example has run to
\* completion the working directory holds the same files and directories
\* as when the example was called.
C6_WorkingDirectoryUnchanged ==
    Returned => Tree(fs, pre.cwd) = Tree(pre.fs, pre.cwd)

IsCall(e) == e.ev = "example"
Calls == SelectSeq(log, IsCall)

C7_InOrder ==
    /\ pc # "aborted"
    /\ \A k \in 1..Len(Calls) : Calls[k].n = k
    /\ \A k \in 1..Len(Calls) :
            (Calls[k].exc # None /\ k < NumExamples) =>
                Len(Calls) > k \/ (pc = "sleep" /\ i = k) \/ (pc = "call" /\ i = k + 1)
    /\ pc = "done" =>
            /\ NumExamples = 20 /\ Len(Calls) = NumExamples
            /\ log[Len(log)].ev = "completed"

\* main() has a next step to take: the guards of Call, Sleep and Complete.
MainCanStep ==
    \/ /\ pc = "call" /\ i \in 1..NumExamples
       /\ CallExample(Examples[i], [fs |-> fs, env |-> env, cwd |-> cwd, os |-> os_name, exc |-> None]) # {}
    \/ pc = "sleep"
    \/ pc = "print"

\* C7: whichever examples raise, main() calls every example exactly once,
\* in the listed order, an exception in one example never keeps the next
\* from being called, and the run ends by printing ALL EXAMPLES COMPLETED!:
\* until it has, main() is never aborted and always has a next step, and
\* every step adds to the log, which holds at most two entries an example.
C7_EveryExampleRuns ==
    IsMain =>
        /\ C7_InOrder
        /\ Len(log) <= 2 * NumExamples
        /\ Len(log) = 2 * NumExamples => pc = "done"
        /\ pc = "done" \/ MainCanStep

C7_Witness ==
    /\ IsMain /\ pc = "done"
    /\ Cardinality({k \in 1..Len(Calls) : Calls[k].exc # None}) >= 2

\* C8: every request to /divide, /status or /health, whatever its query
\* parameters, is answered with a JSON response whose status is 200, 400 or
\* 500; no exception leaves the handler, and no body has both a result and
\* an error field.
C8_HandlersAlwaysAnswerJSON ==
    (Answered /\ Routed) =>
        /\ response.mimetype = "application/json"
        /\ response.status \in {200, 400, 500}
        /\ response # unhandled_exception
        /\ ~({"result", "error"} \subseteq DOMAIN response.body)

C8_Witness ==
    /\ DivideAnswered /\ response.status = 500
    /\ ~ArgA.given /\ ArgB = Arg("abc")

\* C9: when an example has returned, the process state outside the working
\* directory's contents is what it was when the example was called: the
\* current working directory, the environment variables, and the files of
\* the system temp directory.
C9_ProcessStateUnchanged ==
    Returned =>
        /\ cwd = pre.cwd
        /\ env = pre.env
        /\ Tree(fs, Tail(TempDir)) = Tree(pre.fs, Tail(TempDir))

\* C10: main() runs the examples one after another with exactly one delay
\* of the fixed length between two consecutive examples: a delay follows
\* every example but the last (19 delays for 20 examples), also one that
\* raised, and the final output follows the last example directly.
C10_OneDelayBetweenExamples ==
    IsMain =>
        /\ Len(log) <= 2 * NumExamples
        /\ \A k \in 1..Len(log) :
                IF k = 2 * NumExamples THEN log[k].ev = "completed"
                ELSE IF k % 2 = 1 THEN log[k].ev = "example" /\ log[k].n = (k + 1) \div 2
                ELSE log[k] = [ev |-> "sleep", n |-> 500, exc |-> None]
        /\ pc = "done" =>
                /\ Cardinality({k \in 1..Len(log) : log[k].ev = "example"}) = 20
                /\ Cardinality({k \in 1..Len(log) : log[k].ev = "sleep"}) = 19

C10_Witness ==
    /\ IsMain /\ pc = "done"
    /\ \E k \in 1..(Len(log) - 1) :
            log[k].ev = "example" /\ log[k].exc # None /\ log[k + 1].ev = "sleep"

\* C11: in divide() a missing a is 0 and a missing b is 1: a GET /divide
\* with neither parameter is answered 200 with result 0, one with only a,
\* a number x, is answered 200 with result x, and a request without b is
\* never answered with the 400 of a division by zero.
C11_MissingParametersDefault ==
    DivideAnswered =>
        /\ (~ArgA.given /\ ~ArgB.given) =>
                response = jsonify([result |-> JNum([kind |-> "fin", n |-> 0, d |-> 1])], 200)
        /\ (Parses(ArgA) /\ ~ArgB.given) =>
                response = jsonify([result |-> JNum(Parsed(ArgA))], 200)
        /\ (~ArgA.given /\ Parses(ArgB) /\ ~IsZero(Parsed(ArgB))) =>
                /\ response.status = 200
                /\ IsQuotient(response.body.result.num, [kind |-> "fin", n |-> 0, d |-> 1],
                              Parsed(ArgB))
        /\ ~ArgB.given => response.status # 400

C11_Witness ==
    /\ DivideAnswered /\ served >= 1
    /\ ~ArgA.given /\ ~ArgB.given /\ response.status = 200

\* C12: divide() parses both parameters before it divides, so a parameter
\* that does not parse wins over a zero divisor: a that does not parse with
\* b=0 is answered 500, not 400; a number a with b that does not parse is
\* answered 500; and 400 is answered only when neither parameter failed to
\* parse (and then b is zero).
C12_ParseFailureBeforeZeroDivision ==
    DivideAnswered =>
        /\ (ArgA.given /\ ~Parses(ArgA) /\ Parses(ArgB) /\ IsZero(Parsed(ArgB))) =>
                response.status = 500
        /\ (Parses(ArgA) /\ ArgB.given /\ ~Parses(ArgB)) => response.status = 500
        /\ response.status = 400 =>
                /\ ArgA.given => Parses(ArgA)
                /\ Parses(ArgB) /\ IsZero(Parsed(ArgB))

C12_Witness ==
    /\ DivideAnswered /\ response.status = 500
    /\ ArgA = Arg("1") /\ ArgB = Arg("abc")

\* The process state when the example that ran last was called.
PreState == [fs |-> pre.fs, env |-> pre.env, cwd |-> pre.cwd, os |-> os_name, exc |-> None]
Called(n) == IsMain /\ \E k \in 1..Len(log) : log[k].ev = "example" /\ log[k].n = n
OrganizeDir == pre.cwd \o <<"organize_test">>

\* The entries of kind t directly inside directory c.
Inside(f, c, t) == {q \in DOMAIN f : q # <<>> /\ Parent(q) = c /\ f[q].t = t}
\* The regular files at any depth below directory c.
FilesBelow(f, c) == {q \in DOMAIN f : IsPrefix(c, q) /\ q # c /\ f[q].t = "file"}

\* The folder the claim names for a file: its extension without the dot,
\* other for a name with no extension.
ExtensionFolder(name) ==
    IF splitext_ext(name) = "" THEN "other"
    ELSE SubSeq(splitext_ext(name), 2, Len(splitext_ext(name)))

\* C13: when the organize loop of example_file_organizer has completed, no
\* regular file is left directly inside organize_test, every file that was
\* there is at organize_test/<extension without the dot>/<name> (other for
\* a name with no extension), the loop has neither lost nor duplicated a
\* file, and the directories that were inside organize_test are in place.
C13_OrganizedByExtension ==
    Called(20) =>
        LET B == organizer_setup(PreState)
        IN  \A T \in organizer_organized(PreState) :
                Ok(T) =>
                    /\ Inside(T.fs, OrganizeDir, "file") = {}
                    /\ \A q \in Inside(B.fs, OrganizeDir, "file") :
                            LET name == q[Len(q)]
                                to == OrganizeDir \o <<ExtensionFolder(name), name>>
                            IN  to \in DOMAIN T.fs /\ T.fs[to] = B.fs[q]
                    /\ Cardinality(FilesBelow(T.fs, OrganizeDir))
                            = Cardinality(FilesBelow(B.fs, OrganizeDir))
                    /\ \A q \in Inside(B.fs, OrganizeDir, "dir") :
                            q \in DOMAIN T.fs /\ T.fs[q].t = "dir"

\* The sum of the sizes of a set of regular files, each taken once.
RECURSIVE TotalSize(_, _)
TotalSize(f, files) ==
    IF files = {} THEN 0
    ELSE LET q == CHOOSE x \in files : TRUE
         IN  f[q].size + TotalSize(f, files \ {q})

SizeDir == pre.cwd \o <<"size_test">>

\* C14: get_directory_size(path) returns the sum of the sizes of all the
\* regular files at any depth under path, each counted exactly once; for
\* the tree example_directory_size builds, 1000 bytes at the top and 2000
\* bytes in subdir, it returns 3000.
C14_DirectorySizeIsSumOfFiles ==
    (Called(18) /\ Ok(directory_size_setup(PreState))) =>
        LET B == directory_size_setup(PreState)
            regular == FilesBelow(B.fs, SizeDir)
        IN  /\ directory_size_total(PreState) = TotalSize(B.fs, regular)
            /\ regular = {SizeDir \o <<"file1.txt">>, SizeDir \o <<"subdir", "file2.txt">>} =>
                    directory_size_total(PreState) = 3000

====
